---- MODULE Spec2Model ----
(***************************************************************************)
(* iDrive controller CAN interpreter: the frame router, the controller     *)
(* frame decoder (knob, buttons, rotation tracker), the brightness         *)
(* commands and the serial command handler, as a state machine.            *)
(*                                                                         *)
(* Program state: the two snapshots current / previous and debugMode.      *)
(* Observed inputs and outputs of the last operation: rx (the frame read   *)
(* by processCanMessages), events (the state-change lines printed on the   *)
(* serial port), tx (the frames handed to CAN.sendMsgBuf), now (the last   *)
(* value millis() returned).                                               *)
(* History variables: op (the operation that ran last), controllerFrames   *)
(* (how many 0x25B frames have been decoded: 0, 1, or 2 for more), settled *)
(* (current as it was when the last frame had been processed), lastCmd    *)
(* (the character the last operation read from the serial port, "" if      *)
(* none), lastLevel (the argument of the last operation when it was a      *)
(* direct call of setBrightness, -1 otherwise), lastLightFrame (the last   *)
(* frame sent on the brightness identifier 0x202, NoFrame if none).        *)
(* Environment: canBegin (what CAN.begin returned in setup: "none" before  *)
(* setup ran, "CAN_OK" or "CAN_FAILINIT"), pending (the frames waiting in  *)
(* the receive buffer of the CAN controller, oldest first; empty when the  *)
(* frame read is given directly), arrived (how many frames have entered    *)
(* that buffer).                                                           *)
(***************************************************************************)
EXTENDS Integers, Sequences, FiniteSets, TLC

VARIABLES current, previous, debugMode, rx, events, tx, now, op,
          controllerFrames, settled, lastCmd, lastLevel,
          lastLightFrame, canBegin, pending, arrived

vars == <<current, previous, debugMode, rx, events, tx, now, op,
          controllerFrames, settled, lastCmd, lastLevel,
          lastLightFrame, canBegin, pending, arrived>>

(***************************************************************************)
(* Program constants.                                                      *)
(***************************************************************************)
IDRIVE_UNKNOWN_567 == \h567
IDRIVE_CONTROLLER_ID == \h25B
IDRIVE_UNKNOWN_5E7 == \h5E7
IDRIVE_DATA_STREAM_ID == \h0BF
IDRIVE_GEAR_INDICATION_ID == \h3FD
BRIGHTNESS_ID == \h202
BRIGHTNESS_MAX == \hFD
BRIGHTNESS_OFF_PAYLOAD == \hFE
BRIGHTNESS_STEP == \h20
KEEPALIVE_INTERVAL == 500

Byte == 0..255

(***************************************************************************)
(* Bounds of the model.                                                    *)
(***************************************************************************)
\* |stepPosition| explored up to this value (the int counter is unbounded
\* for every practical purpose).
MaxStep == 2
\* millis() readings explored up to this value (in SpecLoop: up to this many
\* keep-alive intervals).
MaxTime == 1
\* Frames that enter the receive buffer in SpecLoop.
MaxArrivals == 3
\* Frames that enter the receive buffer during the delays of sendKnobWakeUp.
MaxDelayArrivals == 1

(***************************************************************************)
(* struct iDriveState with its default member initialisers.                *)
(***************************************************************************)
iDriveState ==
    [knobPressedCenter |-> FALSE, knobPressedLeft |-> FALSE,
     knobPressedUp |-> FALSE, knobPressedRight |-> FALSE,
     knobPressedDown |-> FALSE,
     backButtonPressed |-> FALSE, backButtonTouched |-> FALSE,
     comButtonPressed |-> FALSE, comButtonTouched |-> FALSE,
     optionButtonPressed |-> FALSE, optionButtonTouched |-> FALSE,
     homeButtonPressed |-> FALSE, homeButtonTouched |-> FALSE,
     mediaButtonPressed |-> FALSE, mediaButtonTouched |-> FALSE,
     navButtonPressed |-> FALSE, navButtonTouched |-> FALSE,
     mapButtonPressed |-> FALSE, mapButtonTouched |-> FALSE,
     globeButtonPressed |-> FALSE, globeButtonTouched |-> FALSE,
     rotationDirection |-> 0, stepPosition |-> 0,
     sequenceCounter |-> 0, lastEncoderValue |-> 0,
     firstRotationMessage |-> TRUE,
     iDriveLightOn |-> FALSE, brightnessLevel |-> \hFD,
     last567Time |-> 0, lastKeepAliveTime |-> 0]

\* A frame: its identifier and its len data bytes (len = Len(data), at most
\* 8).  rx holds rxId and the eight bytes of rxBuf as the decoder sees them.
Frame(id, data) == [id |-> id, data |-> data]

\* rx before any frame has been read, lastLightFrame before any frame has
\* been sent: no identifier, no bytes.
NoFrame == Frame(-1, << >>)

\* unsigned char rxBuf[8] after CAN.readMsgBuf(&rxId, &len, rxBuf): the len
\* bytes of the frame, then the bytes of the uninitialised local array the
\* read did not write, which hold any value.
RxBuf(data) ==
    IF Len(data) >= 8 THEN {data}
    ELSE {data \o stale : stale \in [1..(8 - Len(data)) -> 0..255]}

\* data[i] of the C array (0-based).
At(data, i) == data[i + 1]

(***************************************************************************)
(* Serial output of a state change: printed in debug modes 0 and 1 only.   *)
(***************************************************************************)
StatusPrintNormalOnly(dbg, widget, label) ==
    IF dbg = 0
    THEN << [widget |-> widget, label |-> label] >>
    ELSE << >>

StatusPrintAllModes(dbg, widget, label) ==
    << [widget |-> widget, label |-> label] >>

StatusPrint(dbg, widget, label) ==
    IF dbg = 0 \/ dbg = 1
    THEN << [widget |-> widget, label |-> label] >>
    ELSE << >>

(***************************************************************************)
(* One knob direction: if (current.f != newF) { current.f = newF; print }  *)
(* acc is [state, events]: the snapshot so far and the lines printed.      *)
(***************************************************************************)
UpdateKnobSetOnly(acc, field, new, label, dbg) ==
    IF acc.state[field] # new
    THEN [state  |-> [acc.state EXCEPT ![field] = (@ \/ new)],
          events |-> acc.events \o
                     StatusPrint(dbg, field, IF new THEN label ELSE "RELEASED")]
    ELSE acc

UpdateKnobNoClear(acc, field, new, label, dbg) ==
    IF new /\ ~acc.state[field]
    THEN [state  |-> [acc.state EXCEPT ![field] = new],
          events |-> acc.events \o StatusPrint(dbg, field, label)]
    ELSE acc

UpdateKnob(acc, field, new, label, dbg) ==
    IF acc.state[field] # new
    THEN [state  |-> [acc.state EXCEPT ![field] = new],
          events |-> acc.events \o
                     StatusPrint(dbg, field, IF new THEN label ELSE "RELEASED")]
    ELSE acc

(***************************************************************************)
(* The label printed for a button: byte == rel ? "RELEASED" :              *)
(* (byte == pressed ? "PRESSED" : "TOUCHED").                              *)
(***************************************************************************)
ButtonLabel(byte, rel, pressed) ==
    IF byte = rel THEN "RELEASED"
    ELSE IF byte = pressed THEN "PRESSED" ELSE "TOUCHED"

(***************************************************************************)
(* One button: if (pressed or touched differs) { assign both; print }.     *)
(***************************************************************************)
UpdateButtonSetOnly(acc, pf, tf, newP, newT, name, label, dbg) ==
    IF acc.state[pf] # newP \/ acc.state[tf] # newT
    THEN [state  |-> [acc.state EXCEPT ![pf] = (@ \/ newP), ![tf] = (@ \/ newT)],
          events |-> acc.events \o StatusPrint(dbg, name, label)]
    ELSE acc

UpdateButtonAlwaysPrint(acc, pf, tf, newP, newT, name, label, dbg) ==
    [state  |-> [acc.state EXCEPT ![pf] = newP, ![tf] = newT],
     events |-> acc.events \o StatusPrint(dbg, name, label)]

UpdateButtonPerBoolean(acc, pf, tf, newP, newT, name, label, dbg) ==
    IF acc.state[pf] # newP \/ acc.state[tf] # newT
    THEN [state  |-> [acc.state EXCEPT ![pf] = newP, ![tf] = newT],
          events |-> acc.events
                     \o (IF acc.state[pf] # newP
                         THEN StatusPrint(dbg, name, label) ELSE << >>)
                     \o (IF acc.state[tf] # newT
                         THEN StatusPrint(dbg, name, label) ELSE << >>)]
    ELSE acc

UpdateButton(acc, pf, tf, newP, newT, name, label, dbg) ==
    IF acc.state[pf] # newP \/ acc.state[tf] # newT
    THEN [state  |-> [acc.state EXCEPT ![pf] = newP, ![tf] = newT],
          events |-> acc.events \o StatusPrint(dbg, name, label)]
    ELSE acc

(***************************************************************************)
(* Rotation tracker.                                                       *)
(***************************************************************************)
\* int16_t encoderDiff = newEncoder - lastEncoderValue, then the wraparound
\* correction.
EncoderDiffNoWrap(newEncoder, lastEncoderValue) ==
    newEncoder - lastEncoderValue

EncoderDiff(newEncoder, lastEncoderValue) ==
    LET encoderDiff == newEncoder - lastEncoderValue
    IN  IF encoderDiff > 127 THEN encoderDiff - 256
        ELSE IF encoderDiff < -127 THEN encoderDiff + 256
        ELSE encoderDiff

\* (encoderDiff > 0) ? 1 : -1
RotationDirectionMagnitude(encoderDiff) ==
    encoderDiff

RotationDirection(encoderDiff) ==
    IF encoderDiff > 0 THEN 1 ELSE -1

\* The tracking branch (firstRotationMessage is false, sequence changed).
TrackRotationNoZeroCheck(acc, newEncoder, dbg) ==
    LET s    == acc.state
        diff == EncoderDiff(newEncoder, s.lastEncoderValue)
        dir  == RotationDirection(diff)
    IN  [state  |-> [s EXCEPT !.rotationDirection = dir,
                              !.stepPosition = @ + dir],
         events |-> acc.events \o
                    StatusPrint(dbg, "Rotation",
                                IF dir = 1 THEN "CW" ELSE "CCW")]

TrackRotation(acc, newEncoder, dbg) ==
    LET s    == acc.state
        diff == EncoderDiff(newEncoder, s.lastEncoderValue)
        dir  == RotationDirection(diff)
    IN  IF diff # 0
        THEN [state  |-> [s EXCEPT !.rotationDirection = dir,
                                   !.stepPosition = @ + dir],
              events |-> acc.events \o
                         StatusPrint(dbg, "Rotation",
                                     IF dir = 1 THEN "CW" ELSE "CCW")]
        ELSE [state  |-> [s EXCEPT !.rotationDirection = 0],
              events |-> acc.events]

\* if (newSequence != current.sequenceCounter) { ... } else { direction = 0 }
UpdateRotationNoBaseline(acc, newSequence, newEncoder, dbg) ==
    IF newSequence # acc.state.sequenceCounter
    THEN LET r == TrackRotation(acc, newEncoder, dbg)
         IN  [state  |-> [r.state EXCEPT !.firstRotationMessage = FALSE,
                                         !.sequenceCounter = newSequence,
                                         !.lastEncoderValue = newEncoder],
              events |-> r.events]
    ELSE [state  |-> [acc.state EXCEPT !.rotationDirection = 0],
          events |-> acc.events]

UpdateRotationNoStore(acc, newSequence, newEncoder, dbg) ==
    IF newSequence # acc.state.sequenceCounter
    THEN IF ~acc.state.firstRotationMessage
         THEN TrackRotation(acc, newEncoder, dbg)
         ELSE [state  |-> [acc.state EXCEPT !.firstRotationMessage = FALSE,
                                            !.rotationDirection = 0],
               events |-> acc.events]
    ELSE [state  |-> [acc.state EXCEPT !.rotationDirection = 0],
          events |-> acc.events]

UpdateRotationAlwaysStore(acc, newSequence, newEncoder, dbg) ==
    IF newSequence # acc.state.sequenceCounter
    THEN LET r == IF ~acc.state.firstRotationMessage
                  THEN TrackRotation(acc, newEncoder, dbg)
                  ELSE [state  |-> [acc.state EXCEPT
                                        !.firstRotationMessage = FALSE,
                                        !.rotationDirection = 0],
                        events |-> acc.events]
         IN  [state  |-> [r.state EXCEPT !.sequenceCounter = newSequence,
                                         !.lastEncoderValue = newEncoder],
              events |-> r.events]
    ELSE [state  |-> [acc.state EXCEPT !.rotationDirection = 0,
                                       !.lastEncoderValue = newEncoder],
          events |-> acc.events]

UpdateRotationRearm(acc, newSequence, newEncoder, dbg) ==
    IF newSequence # acc.state.sequenceCounter
    THEN LET r == IF ~acc.state.firstRotationMessage
                  THEN TrackRotation(acc, newEncoder, dbg)
                  ELSE [state  |-> [acc.state EXCEPT
                                        !.firstRotationMessage = FALSE,
                                        !.rotationDirection = 0],
                        events |-> acc.events]
         IN  [state  |-> [r.state EXCEPT !.sequenceCounter = newSequence,
                                         !.lastEncoderValue = newEncoder],
              events |-> r.events]
    ELSE [state  |-> [acc.state EXCEPT !.rotationDirection = 0,
                                       !.firstRotationMessage = TRUE],
          events |-> acc.events]

UpdateRotationKeepsDirection(acc, newSequence, newEncoder, dbg) ==
    IF newSequence # acc.state.sequenceCounter
    THEN LET r == IF ~acc.state.firstRotationMessage
                  THEN TrackRotation(acc, newEncoder, dbg)
                  ELSE [state  |-> [acc.state EXCEPT
                                        !.firstRotationMessage = FALSE,
                                        !.rotationDirection = 0],
                        events |-> acc.events]
         IN  [state  |-> [r.state EXCEPT !.sequenceCounter = newSequence,
                                         !.lastEncoderValue = newEncoder],
              events |-> r.events]
    ELSE acc

UpdateRotation(acc, newSequence, newEncoder, dbg) ==
    IF newSequence # acc.state.sequenceCounter
    THEN LET r == IF ~acc.state.firstRotationMessage
                  THEN TrackRotation(acc, newEncoder, dbg)
                  ELSE [state  |-> [acc.state EXCEPT
                                        !.firstRotationMessage = FALSE,
                                        !.rotationDirection = 0],
                        events |-> acc.events]
         IN  [state  |-> [r.state EXCEPT !.sequenceCounter = newSequence,
                                         !.lastEncoderValue = newEncoder],
              events |-> r.events]
    ELSE [state  |-> [acc.state EXCEPT !.rotationDirection = 0],
          events |-> acc.events]

(***************************************************************************)
(* handleController: the knob byte, the four button bytes, the rotation.   *)
(***************************************************************************)
DecodeKnob(acc, data, dbg) ==
    LET knobState == At(data, 3)
        a1 == UpdateKnob(acc, "knobPressedCenter", knobState = \h01, "CENTER", dbg)
        a2 == UpdateKnob(a1, "knobPressedLeft", knobState = \hA0, "LEFT", dbg)
        a3 == UpdateKnob(a2, "knobPressedUp", knobState = \h10, "UP", dbg)
        a4 == UpdateKnob(a3, "knobPressedRight", knobState = \h40, "RIGHT", dbg)
    IN  UpdateKnob(a4, "knobPressedDown", knobState = \h70, "DOWN", dbg)

DecodeBackHome(acc, data, dbg) ==
    LET b  == At(data, 4)
        a1 == UpdateButton(acc, "backButtonPressed", "backButtonTouched",
                           b = \h20, b = \h80, "BACK",
                           ButtonLabel(b, \h00, \h20), dbg)
    IN  UpdateButton(a1, "homeButtonPressed", "homeButtonTouched",
                     b = \h04, b = \h10, "HOME",
                     ButtonLabel(b, \h00, \h04), dbg)

DecodeComOption(acc, data, dbg) ==
    LET b  == At(data, 5)
        a1 == UpdateButton(acc, "comButtonPressed", "comButtonTouched",
                           b = \h08, b = \h20, "COM",
                           ButtonLabel(b, \h00, \h08), dbg)
    IN  UpdateButton(a1, "optionButtonPressed", "optionButtonTouched",
                     b = \h01, b = \h04, "OPTION",
                     ButtonLabel(b, \h00, \h01), dbg)

DecodeMediaNav(acc, data, dbg) ==
    LET b  == At(data, 6)
        a1 == UpdateButton(acc, "mediaButtonPressed", "mediaButtonTouched",
                           b = \hC1, b = \hC4, "MEDIA",
                           ButtonLabel(b, \hC0, \hC1), dbg)
    IN  UpdateButton(a1, "navButtonPressed", "navButtonTouched",
                     b = \hC8, b = \hE0, "NAV",
                     ButtonLabel(b, \hC0, \hC8), dbg)

DecodeMapGlobe(acc, data, dbg) ==
    LET b  == At(data, 7)
        a1 == UpdateButton(acc, "mapButtonPressed", "mapButtonTouched",
                           b = \hC1, b = \hC4, "MAP",
                           ButtonLabel(b, \hC0, \hC1), dbg)
    IN  UpdateButton(a1, "globeButtonPressed", "globeButtonTouched",
                     b = \hC8, b = \hE0, "GLOBE",
                     ButtonLabel(b, \hC0, \hC8), dbg)

handleControllerRotationFirst(s, data, dbg) ==
    LET a0 == [state |-> s, events |-> << >>]
        a1 == UpdateRotation(a0, At(data, 0), At(data, 1), dbg)
        a2 == DecodeKnob(a1, data, dbg)
        a3 == DecodeBackHome(a2, data, dbg)
        a4 == DecodeComOption(a3, data, dbg)
        a5 == DecodeMediaNav(a4, data, dbg)
    IN  DecodeMapGlobe(a5, data, dbg)

handleController(s, data, dbg) ==
    LET a0 == [state |-> s, events |-> << >>]
        a1 == DecodeKnob(a0, data, dbg)
        a2 == DecodeBackHome(a1, data, dbg)
        a3 == DecodeComOption(a2, data, dbg)
        a4 == DecodeMediaNav(a3, data, dbg)
        a5 == DecodeMapGlobe(a4, data, dbg)
    IN  UpdateRotation(a5, At(data, 0), At(data, 1), dbg)

handleUnknown567ClearsDirection(s, timestamp) ==
    [state |-> [s EXCEPT !.last567Time = timestamp, !.rotationDirection = 0],
     events |-> << >>]

\* handleUnknown567: current.last567Time = timestamp.
handleUnknown567(s, timestamp) ==
    [state |-> [s EXCEPT !.last567Time = timestamp], events |-> << >>]

RouteAnyId(s, id, data, timestamp, dbg) ==
    IF id = IDRIVE_UNKNOWN_567 THEN handleUnknown567(s, timestamp)
    ELSE handleController(s, data, dbg)

RouteRawSkipsDecode(s, id, data, timestamp, dbg) ==
    IF dbg = 2 THEN [state |-> s, events |-> << >>]
    ELSE IF id = IDRIVE_UNKNOWN_567 THEN handleUnknown567(s, timestamp)
    ELSE IF id = IDRIVE_CONTROLLER_ID THEN handleController(s, data, dbg)
    ELSE [state |-> s, events |-> << >>]

\* The switch (rxId) of processCanMessages.
Route(s, id, data, timestamp, dbg) ==
    IF id = IDRIVE_UNKNOWN_567 THEN handleUnknown567(s, timestamp)
    ELSE IF id = IDRIVE_CONTROLLER_ID THEN handleController(s, data, dbg)
    ELSE [state |-> s, events |-> << >>]

(***************************************************************************)
(* Outgoing commands.  Each returns [state, tx]: the snapshot afterwards   *)
(* and the frames handed to CAN.sendMsgBuf.                                *)
(***************************************************************************)
setBrightnessKeepsFlag(s, level0) ==
    LET level == IF level0 > BRIGHTNESS_MAX THEN BRIGHTNESS_MAX ELSE level0
    IN  IF level = 0
        THEN [state |-> s,
              tx    |-> << Frame(BRIGHTNESS_ID, << BRIGHTNESS_OFF_PAYLOAD >>) >>]
        ELSE [state |-> [s EXCEPT !.brightnessLevel = level,
                                  !.iDriveLightOn = TRUE],
              tx    |-> << Frame(BRIGHTNESS_ID, << level >>) >>]

setBrightnessNoRecord(s, level0) ==
    LET level == IF level0 > BRIGHTNESS_MAX THEN BRIGHTNESS_MAX ELSE level0
    IN  IF level = 0
        THEN [state |-> [s EXCEPT !.iDriveLightOn = FALSE],
              tx    |-> << Frame(BRIGHTNESS_ID, << BRIGHTNESS_OFF_PAYLOAD >>) >>]
        ELSE [state |-> [s EXCEPT !.iDriveLightOn = TRUE],
              tx    |-> << Frame(BRIGHTNESS_ID, << level >>) >>]

setBrightnessNoClamp(s, level0) ==
    LET level == level0
    IN  IF level = 0
        THEN [state |-> [s EXCEPT !.iDriveLightOn = FALSE],
              tx    |-> << Frame(BRIGHTNESS_ID, << BRIGHTNESS_OFF_PAYLOAD >>) >>]
        ELSE [state |-> [s EXCEPT !.brightnessLevel = level,
                                  !.iDriveLightOn = TRUE],
              tx    |-> << Frame(BRIGHTNESS_ID, << level >>) >>]

setBrightnessClearsDirection(s, level0) ==
    LET level == IF level0 > BRIGHTNESS_MAX THEN BRIGHTNESS_MAX ELSE level0
    IN  IF level = 0
        THEN [state |-> [s EXCEPT !.iDriveLightOn = FALSE,
                                  !.rotationDirection = 0],
              tx    |-> << Frame(BRIGHTNESS_ID, << BRIGHTNESS_OFF_PAYLOAD >>) >>]
        ELSE [state |-> [s EXCEPT !.brightnessLevel = level,
                                  !.iDriveLightOn = TRUE,
                                  !.rotationDirection = 0],
              tx    |-> << Frame(BRIGHTNESS_ID, << level >>) >>]

setBrightness(s, level0) ==
    LET level == IF level0 > BRIGHTNESS_MAX THEN BRIGHTNESS_MAX ELSE level0
    IN  IF level = 0
        THEN [state |-> [s EXCEPT !.iDriveLightOn = FALSE],
              tx    |-> << Frame(BRIGHTNESS_ID, << BRIGHTNESS_OFF_PAYLOAD >>) >>]
        ELSE [state |-> [s EXCEPT !.brightnessLevel = level,
                                  !.iDriveLightOn = TRUE],
              tx    |-> << Frame(BRIGHTNESS_ID, << level >>) >>]

Min(a, b) == IF a < b THEN a ELSE b

adjustBrightnessNoClamp(s, delta) ==
    LET newLevel ==
            IF delta > 0
            THEN IF s.brightnessLevel = 0 THEN BRIGHTNESS_STEP
                 ELSE s.brightnessLevel + BRIGHTNESS_STEP
            ELSE IF s.brightnessLevel <= BRIGHTNESS_STEP THEN 0
                 ELSE s.brightnessLevel - BRIGHTNESS_STEP
    IN  setBrightness(s, newLevel % 256)

adjustBrightness(s, delta) ==
    LET newLevel ==
            IF delta > 0
            THEN IF s.brightnessLevel = 0 THEN BRIGHTNESS_STEP
                 ELSE Min(BRIGHTNESS_MAX, s.brightnessLevel + BRIGHTNESS_STEP)
            ELSE IF s.brightnessLevel <= BRIGHTNESS_STEP THEN 0
                 ELSE s.brightnessLevel - BRIGHTNESS_STEP
    IN  setBrightness(s, newLevel % 256)

\* iDriveLight: the two-byte light toggle frame, 0xFD (on) when the light
\* is off and 0xFE (off) when it is on.
iDriveLight(s) ==
    [state |-> s,
     tx    |-> << Frame(BRIGHTNESS_ID,
                        << IF ~s.iDriveLightOn THEN \hFD ELSE \hFE, \h00 >>) >>]

\* sendWakeUp: one frame on 0x273.
sendWakeUp(s) ==
    [state |-> s,
     tx    |-> << Frame(\h273, << \h1D, \hE1, \h00, \hF0,
                                 \hFF, \h7F, \hDE, \h04 >>) >>]

\* sendKnobWakeUp: three frames on 0x567 and one on 0x273, a delay(50)
\* after each.
sendKnobWakeUp(s) ==
    [state |-> s,
     tx    |-> << Frame(\h567, << \h40, \h67, 0, 0, 0, \h02, 0, 0 >>),
                  Frame(\h567, << \h01, 0, 0, 0, 0, 0, 0, 0 >>),
                  Frame(\h567, << \h02, \h10, 0, 0, 0, 0, 0, 0 >>),
                  Frame(\h273, << \h40, \h65, 0, 0, 0, \h02, 0, 0 >>) >>]

sendKeepAliveFromState(s) ==
    [state |-> s,
     tx    |-> << Frame(\h567, << \h40, \h67, 0, 0, 0,
                                 IF s.knobPressedCenter THEN 0 ELSE \h02,
                                 0, 0 >>) >>]

sendKeepAlive(s) ==
    [state |-> s,
     tx    |-> << Frame(\h567, << \h40, \h67, 0, 0, 0, \h02, 0, 0 >>) >>]

(***************************************************************************)
(* handleSerialCommands: one character read from the serial port.          *)
(***************************************************************************)
Digits == <<"0", "1", "2", "3", "4", "5", "6", "7", "8", "9">>

IsDigit(cmd) == \E i \in 1..10 : Digits[i] = cmd

\* cmd - '0'
DigitValue(cmd) == (CHOOSE i \in 1..10 : Digits[i] = cmd) - 1

\* uint8_t level = (cmd == '0') ? 0x00 : 0x20 + ((cmd - '1') * 0x18);
\* if (level > 0xFD) level = 0xFD;
DigitLevel(cmd) ==
    LET level == IF cmd = "0" THEN 0
                 ELSE (\h20 + (DigitValue(cmd) - 1) * \h18) % 256
    IN  IF level > \hFD THEN \hFD ELSE level

\* The switch (cmd): [state, tx, debugMode] afterwards.
SerialCommand(s, dbg, cmd) ==
    IF cmd \in {"d", "D"}
    THEN [state |-> s, tx |-> << >>, debugMode |-> (dbg + 1) % 3]
    ELSE LET r == IF cmd \in {"k", "K"} THEN sendKeepAlive(s)
                  ELSE IF cmd \in {"+", "="} THEN adjustBrightness(s, 1)
                  ELSE IF cmd \in {"-", "_"} THEN adjustBrightness(s, -1)
                  ELSE IF IsDigit(cmd) THEN setBrightness(s, DigitLevel(cmd))
                  ELSE [state |-> s, tx |-> << >>]
         IN  [state |-> r.state, tx |-> r.tx, debugMode |-> dbg]

(***************************************************************************)
(* State machine.                                                          *)
(***************************************************************************)
Init ==
    /\ current = iDriveState
    /\ previous = iDriveState
    /\ debugMode = 0
    /\ rx = NoFrame
    /\ events = << >>
    /\ tx = << >>
    /\ now = 0
    /\ op = "init"
    /\ controllerFrames = 0
    /\ settled = iDriveState
    /\ lastCmd = ""
    /\ lastLevel = -1
    /\ lastLightFrame = NoFrame
    /\ canBegin = "CAN_OK"
    /\ pending = << >>
    /\ arrived = 0

Abs(n) == IF n < 0 THEN -n ELSE n

\* processCanMessages, CAN_INT high (no frame pending): return.
PollNoInterrupt ==
    UNCHANGED vars

\* A failed read that has already copied current to previous.
PollReadFailedCopies ==
    /\ previous' = current
    /\ UNCHANGED <<current, debugMode, rx, events, tx, now, op,
                   controllerFrames, settled, lastCmd, lastLevel,
                   lastLightFrame, canBegin, pending, arrived>>

\* processCanMessages, CAN.readMsgBuf(...) != CAN_OK: return.
PollReadFailed ==
    UNCHANGED vars

\* processCanMessages reading the newest pending frame instead of the oldest.
processCanMessagesNewestFirst(f, t) ==
    \E g \in {IF pending = << >> THEN f ELSE pending[Len(pending)]} :
    \E r \in {Route(current, g.id, g.data, t, debugMode)} :
        /\ Abs(r.state.stepPosition) <= MaxStep
        /\ previous' = current
        /\ current' = r.state
        /\ events' = r.events
        /\ rx' = g
        /\ now' = t
        /\ tx' = << >>
        /\ op' = "frame"
        /\ controllerFrames' = IF g.id = IDRIVE_CONTROLLER_ID
                               THEN Min(controllerFrames + 1, 2)
                               ELSE controllerFrames
        /\ settled' = r.state
        /\ lastCmd' = ""
        /\ lastLevel' = -1
        /\ pending' = IF pending = << >> THEN pending
                      ELSE SubSeq(pending, 1, Len(pending) - 1)
        /\ UNCHANGED <<debugMode, lastLightFrame, canBegin, arrived>>

\* processCanMessages with a frame read at millis() = t:
\* previous = current, then the switch on rxId.
processCanMessagesCopyAfter(f, t) ==
    \E r \in {Route(current, f.id, f.data, t, debugMode)} :
        /\ Abs(r.state.stepPosition) <= MaxStep
        /\ previous' = r.state
        /\ current' = r.state
        /\ events' = r.events
        /\ rx' = f
        /\ now' = t
        /\ tx' = << >>
        /\ op' = "frame"
        /\ controllerFrames' = IF f.id = IDRIVE_CONTROLLER_ID
                               THEN Min(controllerFrames + 1, 2)
                               ELSE controllerFrames
        /\ settled' = r.state
        /\ lastCmd' = ""
        /\ lastLevel' = -1
        /\ pending' = IF pending = << >> THEN pending ELSE Tail(pending)
        /\ UNCHANGED <<debugMode, lastLightFrame, canBegin, arrived>>

\* processCanMessages that returns before the read while the raw monitor
\* (debug mode 2) is on.
processCanMessagesNotInRaw(f, t) ==
    /\ debugMode # 2
    /\ \E rxBuf \in RxBuf(f.data) :
       \E r \in {Route(current, f.id, rxBuf, t, debugMode)} :
        /\ Abs(r.state.stepPosition) <= MaxStep
        /\ previous' = current
        /\ current' = r.state
        /\ events' = r.events
        /\ rx' = Frame(f.id, rxBuf)
        /\ now' = t
        /\ tx' = << >>
        /\ op' = "frame"
        /\ controllerFrames' = IF f.id = IDRIVE_CONTROLLER_ID
                               THEN Min(controllerFrames + 1, 2)
                               ELSE controllerFrames
        /\ settled' = r.state
        /\ lastCmd' = ""
        /\ lastLevel' = -1
        /\ pending' = IF pending = << >> THEN pending ELSE Tail(pending)
        /\ UNCHANGED <<debugMode, lastLightFrame, canBegin, arrived>>

processCanMessages(f, t) ==
    \E rxBuf \in RxBuf(f.data) :
    \E r \in {Route(current, f.id, rxBuf, t, debugMode)} :
        /\ Abs(r.state.stepPosition) <= MaxStep
        /\ previous' = current
        /\ current' = r.state
        /\ events' = r.events
        /\ rx' = Frame(f.id, rxBuf)
        /\ now' = t
        /\ tx' = << >>
        /\ op' = "frame"
        /\ controllerFrames' = IF f.id = IDRIVE_CONTROLLER_ID
                               THEN Min(controllerFrames + 1, 2)
                               ELSE controllerFrames
        /\ settled' = r.state
        /\ lastCmd' = ""
        /\ lastLevel' = -1
        /\ pending' = IF pending = << >> THEN pending ELSE Tail(pending)
        /\ UNCHANGED <<debugMode, lastLightFrame, canBegin, arrived>>

\* handleSerialCommands, Serial.available() is 0: return.
SerialIdle ==
    UNCHANGED vars

\* The last frame sent on 0x202 once the frames sent have gone out.
LightFrameAfter(sent) ==
    IF \E i \in 1..Len(sent) : sent[i].id = BRIGHTNESS_ID
    THEN sent[CHOOSE i \in 1..Len(sent) :
                  /\ sent[i].id = BRIGHTNESS_ID
                  /\ \A j \in (i + 1)..Len(sent) : sent[j].id # BRIGHTNESS_ID]
    ELSE lastLightFrame

\* handleSerialCommands with the character c read.
handleSerialCommands(c) ==
    \E r \in {SerialCommand(current, debugMode, c)} :
        /\ current' = r.state
        /\ debugMode' = r.debugMode
        /\ tx' = r.tx
        /\ events' = << >>
        /\ op' = "serial"
        /\ lastCmd' = c
        /\ lastLevel' = -1
        /\ lastLightFrame' = LightFrameAfter(r.tx)
        /\ UNCHANGED <<previous, rx, now, controllerFrames, settled,
                       canBegin, pending, arrived>>

\* setBrightness(l) called with an 8-bit argument.
setBrightnessCall(l) ==
    \E r \in {setBrightness(current, l)} :
        /\ current' = r.state
        /\ tx' = r.tx
        /\ events' = << >>
        /\ op' = "setBrightness"
        /\ lastCmd' = ""
        /\ lastLevel' = l
        /\ lastLightFrame' = LightFrameAfter(r.tx)
        /\ UNCHANGED <<previous, rx, now, controllerFrames, settled,
                       debugMode, canBegin, pending, arrived>>

\* The readings millis() can return next, dts after the last one: the clock
\* does not go back.
Readings(dts) == {t \in {now + d : d \in dts} : t <= MaxTime}

\* The state when setup() is entered: the globals as constructed.
InitBoot ==
    /\ current = iDriveState
    /\ previous = iDriveState
    /\ debugMode = 0
    /\ rx = NoFrame
    /\ events = << >>
    /\ tx = << >>
    /\ now = 0
    /\ op = "boot"
    /\ controllerFrames = 0
    /\ settled = iDriveState
    /\ lastCmd = ""
    /\ lastLevel = -1
    /\ lastLightFrame = NoFrame
    /\ canBegin = "none"
    /\ pending = << >>
    /\ arrived = 0

\* setup() falling through to loop() when CAN.begin failed.
setupNoHalt(ok, t) ==
    /\ canBegin' = IF ok THEN "CAN_OK" ELSE "CAN_FAILINIT"
    /\ op' = "setup"
    /\ now' = t
    /\ current' = [current EXCEPT !.lastKeepAliveTime = t]
    /\ UNCHANGED <<previous, debugMode, rx, events, tx, controllerFrames,
                   settled, lastCmd, lastLevel, lastLightFrame, pending,
                   arrived>>

\* setup() with CAN.begin(...) == CAN_OK being ok and millis() reading t:
\* on failure while (1) delay(1000); otherwise
\* current.lastKeepAliveTime = millis() and return to the caller of loop().
setup(ok, t) ==
    /\ canBegin' = IF ok THEN "CAN_OK" ELSE "CAN_FAILINIT"
    /\ op' = IF ok THEN "setup" ELSE "halted"
    /\ now' = t
    /\ current' = IF ok THEN [current EXCEPT !.lastKeepAliveTime = t]
                  ELSE current
    /\ UNCHANGED <<previous, debugMode, rx, events, tx, controllerFrames,
                   settled, lastCmd, lastLevel, lastLightFrame, pending,
                   arrived>>

\* while (1) delay(1000);
HaltLoop ==
    UNCHANGED vars

\* The CAN controller buffers a received frame (CAN_INT goes low).
Arrive(f) ==
    /\ arrived < MaxArrivals
    /\ pending' = Append(pending, f)
    /\ arrived' = arrived + 1
    /\ op' = "arrive"
    /\ UNCHANGED <<current, previous, debugMode, rx, events, tx, now,
                   controllerFrames, settled, lastCmd, lastLevel,
                   lastLightFrame, canBegin>>

\* iDriveLight() called.
iDriveLightCall ==
    \E r \in {iDriveLight(current)} :
        /\ current' = r.state
        /\ tx' = r.tx
        /\ events' = << >>
        /\ op' = "iDriveLight"
        /\ lastCmd' = ""
        /\ lastLevel' = -1
        /\ lastLightFrame' = LightFrameAfter(r.tx)
        /\ UNCHANGED <<previous, rx, now, controllerFrames, settled,
                       debugMode, canBegin, pending, arrived>>

\* sendWakeUp() called.
sendWakeUpCall ==
    \E r \in {sendWakeUp(current)} :
        /\ current' = r.state
        /\ tx' = r.tx
        /\ events' = << >>
        /\ op' = "sendWakeUp"
        /\ lastCmd' = ""
        /\ lastLevel' = -1
        /\ lastLightFrame' = LightFrameAfter(r.tx)
        /\ UNCHANGED <<previous, rx, now, controllerFrames, settled,
                       debugMode, canBegin, pending, arrived>>

\* sendKnobWakeUp() is inside the function: it has sent fewer than its
\* four frames and sits in the delay(50) after a send.
KnobWakeUpRunning == op = "sendKnobWakeUp" /\ Len(tx) < 4

\* sendKnobWakeUp() called: the first CAN.sendMsgBuf, then delay(50).
sendKnobWakeUpCall ==
    \E r \in {sendKnobWakeUp(current)} :
        /\ current' = r.state
        /\ tx' = << r.tx[1] >>
        /\ events' = << >>
        /\ op' = "sendKnobWakeUp"
        /\ lastCmd' = ""
        /\ lastLevel' = -1
        /\ lastLightFrame' = LightFrameAfter(<< r.tx[1] >>)
        /\ UNCHANGED <<previous, rx, now, controllerFrames, settled,
                       debugMode, canBegin, pending, arrived>>

\* The delay(50) ends: the next CAN.sendMsgBuf of sendKnobWakeUp(), then
\* its delay(50).
sendKnobWakeUpNext ==
    /\ KnobWakeUpRunning
    /\ \E r \in {sendKnobWakeUp(current)} :
           /\ tx' = Append(tx, r.tx[Len(tx) + 1])
           /\ lastLightFrame' = LightFrameAfter(<< r.tx[Len(tx) + 1] >>)
    /\ UNCHANGED <<current, previous, debugMode, rx, events, now, op,
                   controllerFrames, settled, lastCmd, lastLevel, canBegin,
                   pending, arrived>>

\* The CAN controller buffers a received frame while the program waits in
\* a delay(50) of sendKnobWakeUp().
ArriveInDelay(f) ==
    /\ op = "sendKnobWakeUp"
    /\ arrived < MaxDelayArrivals
    /\ pending' = Append(pending, f)
    /\ arrived' = arrived + 1
    /\ UNCHANGED <<current, previous, debugMode, rx, events, tx, now, op,
                   controllerFrames, settled, lastCmd, lastLevel,
                   lastLightFrame, canBegin>>

(***************************************************************************)
(* Inputs.                                                                 *)
(***************************************************************************)
Released == <<0, 0, 0, \h00, \h00, \h00, \hC0, \hC0>>

\* A controller payload: bytes 0, 1 and 3..7 (byte 2 is not read).
Payload(seq, enc, b3, b4, b5, b6, b7) == <<seq, enc, 0, b3, b4, b5, b6, b7>>

\* The payload with every widget released.
Released0(seq, enc) == Payload(seq, enc, \h00, \h00, \h00, \hC0, \hC0)

\* The byte values tried in the knob region and in the button regions: the
\* codes of the region, the codes of the other regions, both released codes
\* and values no region lists.
KnobBytes == {\h00, \h01, \h10, \h40, \h70, \hA0, \h11, \hFF}

LowButtonBytes == {\h00, \h20, \h80, \h04, \h10, \h08, \h01, \h24}

HighButtonBytes == {\hC0, \hC1, \hC4, \hC8, \hE0, \h00, \hC9}

RegionBytes(i) ==
    IF i = 3 THEN KnobBytes
    ELSE IF i \in {4, 5} THEN LowButtonBytes ELSE HighButtonBytes

\* Payloads with one widget region away from released.
OneRegion(seq, enc) ==
    UNION {{[Released0(seq, enc) EXCEPT ![i + 1] = v] : v \in RegionBytes(i)} :
           i \in 3..7}

\* Payloads with every region active at once.
AllRegions(seq, enc) ==
    {Payload(seq, enc, \h01, \h20, \h08, \hC1, \hC1),
     Payload(seq, enc, \hA0, \h10, \h04, \hE0, \hC8)}

ControllerFrames(payloads) == {Frame(IDRIVE_CONTROLLER_ID, d) : d \in payloads}

\* A frame of another identifier on the bus.
OtherFrames(ids) ==
    {Frame(id, <<\h05, \h67, \h04, \h01, \h20, \h08, \hC1, \hC8>>) : id \in ids}

\* One pass of loop(): the serial handler or the CAN poll takes a step.
NextOn(frames, cmds, dts) ==
    \/ PollNoInterrupt
    \/ PollReadFailed
    \/ \E f \in frames, t \in Readings(dts) : processCanMessages(f, t)
    \/ SerialIdle
    \/ \E c \in cmds : handleSerialCommands(c)

(***************************************************************************)
(* Spec: every operation, a few frames of each kind.                       *)
(***************************************************************************)
SpecFrames ==
    ControllerFrames({Released0(0, 0),
                      Payload(1, 0, \h01, \h00, \h00, \hC0, \hC0),
                      Payload(2, 5, \h01, \h20, \h00, \hC1, \hC0)})
    \cup OtherFrames({IDRIVE_UNKNOWN_567, IDRIVE_UNKNOWN_5E7})

SpecCmds == {"d", "0", "9", "k"}

Next == NextOn(SpecFrames, SpecCmds, {0, 1})

Spec == Init /\ [][Next]_vars

(***************************************************************************)
(* SpecWidget: the widget bytes vary, the rotation bytes do not.           *)
(***************************************************************************)
WidgetFrames ==
    ControllerFrames(OneRegion(0, 0) \cup AllRegions(0, 0))
    \cup OtherFrames({IDRIVE_GEAR_INDICATION_ID})

NextWidget == NextOn(WidgetFrames, {"d"}, {0})

SpecWidget == Init /\ [][NextWidget]_vars

(***************************************************************************)
(* SpecRotation: the sequence and encoder bytes vary, the widgets do not.  *)
(***************************************************************************)
SeqBytes == {\h00, \h01, \hFF}

EncBytes == {\h00, \h02, \h05, \h80, \hF0}

RotationFrames ==
    ControllerFrames({Released0(seq, enc) : seq \in SeqBytes, enc \in EncBytes}
                     \cup {Payload(seq, \h05, \h01, \h20, \h00, \hC0, \hC8) :
                              seq \in SeqBytes})
    \cup OtherFrames({IDRIVE_DATA_STREAM_ID})

NextRotation == NextOn(RotationFrames, {"d"}, {0})

SpecRotation == Init /\ [][NextRotation]_vars

(***************************************************************************)
(* SpecEncoder: the baseline frame and the first tracked frame, for every  *)
(* pair of encoder bytes.                                                  *)
(***************************************************************************)
NextEncoder ==
    \E enc \in Byte :
        /\ current.sequenceCounter \in {0, 1}
        /\ processCanMessages(
               Frame(IDRIVE_CONTROLLER_ID,
                     Released0(current.sequenceCounter + 1, enc)), now)

SpecEncoder == Init /\ [][NextEncoder]_vars

(***************************************************************************)
(* SpecBaseline: the frames up to and including the one that takes the     *)
(* tracker out of Baseline. A knob code in byte 3, the buttons released;   *)
(* the sequence byte 0 keeps the tracker in Baseline, a nonzero one comes  *)
(* with every encoder byte.                                                *)
(***************************************************************************)
KnobCodes == {\h01, \h10, \h40, \h70, \hA0}

BaselineSeqBytes == {\h01, \hFF}

BaselineFrames ==
    ControllerFrames(
        {Payload(0, 0, k, \h00, \h00, \hC0, \hC0) : k \in {\h00, \h01}}
        \cup {Payload(seq, enc, k, \h00, \h00, \hC0, \hC0) :
                 seq \in BaselineSeqBytes, enc \in Byte, k \in KnobCodes})

NextBaseline ==
    \/ PollNoInterrupt
    \/ PollReadFailed
    \/ /\ current.firstRotationMessage
       /\ \E f \in BaselineFrames : processCanMessages(f, now)
    \/ SerialIdle
    \/ handleSerialCommands("d")

SpecBaseline == Init /\ [][NextBaseline]_vars

(***************************************************************************)
(* SpecBrightness: the brightness commands of the serial port and          *)
(* setBrightness called with 8-bit arguments around the clamp and the      *)
(* quantum.                                                                *)
(***************************************************************************)
BrightnessLevels ==
    {\h00, \h01, \h20, \h21, \h80, \hFD, \hFE, \hFF}

BrightnessCmds ==
    {"0", "1", "2", "9", "+", "=", "-", "_", "k"}

NextBrightness ==
    \/ NextOn(OtherFrames({IDRIVE_UNKNOWN_5E7}), BrightnessCmds, {0})
    \/ \E l \in BrightnessLevels : setBrightnessCall(l)

SpecBrightness == Init /\ [][NextBrightness]_vars

(***************************************************************************)
(* SpecRouting: frames of every handled identifier, of the data stream and *)
(* of an identifier the switch does not list, with payloads that would     *)
(* decode as widgets and rotation; keep-alive and brightness commands.     *)
(***************************************************************************)
UnlistedId == \h123

RoutingIds ==
    {IDRIVE_UNKNOWN_567, IDRIVE_UNKNOWN_5E7, IDRIVE_GEAR_INDICATION_ID,
     IDRIVE_DATA_STREAM_ID, UnlistedId}

RoutingFrames ==
    ControllerFrames({Payload(1, 0, \h01, \h20, \h00, \hC0, \hC0),
                      Payload(2, 5, \h00, \h00, \h08, \hC1, \hC0)})
    \cup OtherFrames(RoutingIds)
    \cup {Frame(UnlistedId,
                <<\h40, \h67, \h00, \h00, \h00, \h02, \h00, \h00>>)}

RoutingCmds == {"d", "k", "0", "9", "+"}

NextRouting == NextOn(RoutingFrames, RoutingCmds, {0, 1})

SpecRouting == Init /\ [][NextRouting]_vars

(***************************************************************************)
(* SpecLoop: setup() and then loop() with the receive buffer of the CAN    *)
(* controller. The n-th frame to arrive carries n as its sequence and      *)
(* encoder byte; millis() advances by whole keep-alive intervals.          *)
(***************************************************************************)
LoopFrame(n, k) ==
    Frame(IDRIVE_CONTROLLER_ID, Payload(n, n, k, \h00, \h00, \hC0, \hC0))

LoopReadings ==
    {t \in {now, now + KEEPALIVE_INTERVAL} : t <= MaxTime * KEEPALIVE_INTERVAL}

NextLoop ==
    \/ op = "boot" /\ \E ok \in BOOLEAN, t \in {0, 1} : setup(ok, t)
    \/ op = "halted" /\ HaltLoop
    \/ /\ op \notin {"boot", "halted"}
       /\ \/ \E k \in {\h01, \h10} : Arrive(LoopFrame(arrived + 1, k))
          \/ pending = << >> /\ PollNoInterrupt
          \/ PollReadFailed
          \/ /\ pending # << >>
             /\ \E t \in LoopReadings : processCanMessages(Head(pending), t)
          \/ SerialIdle
          \/ \E c \in {"d", "k"} : handleSerialCommands(c)

SpecLoop == InitBoot /\ [][NextLoop]_vars

(***************************************************************************)
(* SpecLoopFair: setup() and the passes of loop() with brightness commands *)
(* between the frames.  loop() is entered again for ever, so a frame that  *)
(* waits in the receive buffer is polled again and again: the pass in      *)
(* which processCanMessages reads the oldest frame (ReadPending) is weakly *)
(* fair.  The frames carry the identifiers 0x567 and 0x5E7, which          *)
(* processCanMessages routes to handleUnknown567 and handleUnknown5E7.     *)
(***************************************************************************)
FairFrame(n, id) ==
    Frame(id, Payload(n, \h00, \h00, \h00, \h00, \hC0, \hC0))

ReadPending ==
    /\ pending # << >>
    /\ \E t \in LoopReadings : processCanMessages(Head(pending), t)

LoopPass ==
    \/ \E id \in {IDRIVE_UNKNOWN_567, IDRIVE_UNKNOWN_5E7} :
           Arrive(FairFrame(arrived + 1, id))
    \/ pending = << >> /\ PollNoInterrupt
    \/ PollReadFailed
    \/ ReadPending
    \/ SerialIdle
    \/ \E c \in {"d", "0", "+"} : handleSerialCommands(c)

NextLoopFair ==
    \/ op = "boot" /\ \E ok \in BOOLEAN, t \in {0, 1} : setup(ok, t)
    \/ op = "halted" /\ HaltLoop
    \/ op \notin {"boot", "halted"} /\ LoopPass

SpecLoopFair ==
    InitBoot /\ [][NextLoopFair]_vars /\ WF_vars(ReadPending)

(***************************************************************************)
(* SpecEvents: every region changes at once, with and without rotation.    *)
(***************************************************************************)
EventFrames ==
    ControllerFrames(UNION {AllRegions(seq, enc) \cup {Released0(seq, enc)} :
                               seq \in {0, 1, 2}, enc \in {\h00, \h05}})

NextEvents == NextOn(EventFrames, {"d"}, {0})

SpecEvents == Init /\ [][NextEvents]_vars

(***************************************************************************)
(* SpecShapes: every operation that sends a frame.                         *)
(***************************************************************************)
ShapesCmds == {"0", "9", "+", "-", "k"}

ShapesLevels == {\h00, \h80, \hFF}

\* The frame that arrives during a delay(50).
DelayFrame ==
    Frame(IDRIVE_CONTROLLER_ID, Payload(\h01, \h00, \h01, \h00, \h00, \hC0, \hC0))

\* One pass of loop(), or a direct call, while no function is under way.
ShapesPass ==
    \/ pending = << >> /\ PollNoInterrupt
    \/ PollReadFailed
    \/ /\ pending = << >>
       /\ \E f \in OtherFrames({IDRIVE_UNKNOWN_5E7}), t \in Readings({0}) :
              processCanMessages(f, t)
    \/ /\ pending # << >>
       /\ \E t \in Readings({0}) : processCanMessages(Head(pending), t)
    \/ SerialIdle
    \/ \E c \in ShapesCmds : handleSerialCommands(c)
    \/ \E l \in ShapesLevels : setBrightnessCall(l)
    \/ iDriveLightCall
    \/ sendWakeUpCall
    \/ sendKnobWakeUpCall

NextShapes ==
    \/ ~KnobWakeUpRunning /\ ShapesPass
    \/ sendKnobWakeUpNext
    \/ ArriveInDelay(DelayFrame)

SpecShapes == Init /\ [][NextShapes]_vars

(***************************************************************************)
(* SpecInterference: controller frames that move every part of the         *)
(* decoded state, between brightness commands of every kind.               *)
(***************************************************************************)
InterferenceFrames ==
    ControllerFrames({Released0(0, 0),
                      Payload(1, 0, \h01, \h00, \h00, \hC0, \hC0),
                      Payload(2, 5, \h01, \h20, \h00, \hC1, \hC0)})

InterferenceCmds == {"0", "+", "-"}

InterferenceLevels == {\h80}

NextInterference ==
    \/ NextOn(InterferenceFrames, InterferenceCmds, {0})
    \/ \E l \in InterferenceLevels : setBrightnessCall(l)

SpecInterference == Init /\ [][NextInterference]_vars

(***************************************************************************)
(* SpecShort: a controller frame of seven bytes among frames of eight; the *)
(* decoder reads byte 7 of the buffer, which the read did not write.       *)
(***************************************************************************)
ShortFrames ==
    ControllerFrames({Released0(0, 0),
                      SubSeq(Payload(1, 5, \h01, \h20, \h00, \hC0, \hC0),
                             1, 7)})

\* The first two controller frames.
NextShort == controllerFrames < 2 /\ NextOn(ShortFrames, {"d"}, {0})

SpecShort == Init /\ [][NextShort]_vars

(***************************************************************************)
\* The byte table of the 0x25B layout, per snapshot boolean.
ByteTable(d) ==
    [knobPressedCenter   |-> At(d, 3) = \h01,
     knobPressedUp       |-> At(d, 3) = \h10,
     knobPressedRight    |-> At(d, 3) = \h40,
     knobPressedDown     |-> At(d, 3) = \h70,
     knobPressedLeft     |-> At(d, 3) = \hA0,
     backButtonPressed   |-> At(d, 4) = \h20,
     backButtonTouched   |-> At(d, 4) = \h80,
     homeButtonPressed   |-> At(d, 4) = \h04,
     homeButtonTouched   |-> At(d, 4) = \h10,
     comButtonPressed    |-> At(d, 5) = \h08,
     comButtonTouched    |-> At(d, 5) = \h20,
     optionButtonPressed |-> At(d, 5) = \h01,
     optionButtonTouched |-> At(d, 5) = \h04,
     mediaButtonPressed  |-> At(d, 6) = \hC1,
     mediaButtonTouched  |-> At(d, 6) = \hC4,
     navButtonPressed    |-> At(d, 6) = \hC8,
     navButtonTouched    |-> At(d, 6) = \hE0,
     mapButtonPressed    |-> At(d, 7) = \hC1,
     mapButtonTouched    |-> At(d, 7) = \hC4,
     globeButtonPressed  |-> At(d, 7) = \hC8,
     globeButtonTouched  |-> At(d, 7) = \hE0]

WidgetFields == DOMAIN ByteTable(Released)

\* The snapshot booleans of the widget an event names.
FieldsOf(widget) ==
    CASE widget = "BACK"   -> {"backButtonPressed", "backButtonTouched"}
      [] widget = "HOME"   -> {"homeButtonPressed", "homeButtonTouched"}
      [] widget = "COM"    -> {"comButtonPressed", "comButtonTouched"}
      [] widget = "OPTION" -> {"optionButtonPressed", "optionButtonTouched"}
      [] widget = "MEDIA"  -> {"mediaButtonPressed", "mediaButtonTouched"}
      [] widget = "NAV"    -> {"navButtonPressed", "navButtonTouched"}
      [] widget = "MAP"    -> {"mapButtonPressed", "mapButtonTouched"}
      [] widget = "GLOBE"  -> {"globeButtonPressed", "globeButtonTouched"}
      [] OTHER             -> {widget}

\* The booleans of the four shared button bytes.
ButtonRegions ==
    {{"backButtonPressed", "backButtonTouched",
      "homeButtonPressed", "homeButtonTouched"},
     {"comButtonPressed", "comButtonTouched",
      "optionButtonPressed", "optionButtonTouched"},
     {"mediaButtonPressed", "mediaButtonTouched",
      "navButtonPressed", "navButtonTouched"},
     {"mapButtonPressed", "mapButtonTouched",
      "globeButtonPressed", "globeButtonTouched"}}

\* The state was reached by decoding the controller frame rx.
Decoded == op = "frame" /\ rx.id = IDRIVE_CONTROLLER_ID

RotationEvents == SelectSeq(events, LAMBDA e : e.widget = "Rotation")

WidgetEvents == SelectSeq(events, LAMBDA e : e.widget # "Rotation")

\* C1: after a controller frame has been decoded, every widget boolean of
\* current equals the byte-table predicate on that frame, so a byte outside
\* the codes of its region leaves every boolean of the region false.
C1_ByteTable ==
    rx.id = IDRIVE_CONTROLLER_ID =>
        \A fl \in WidgetFields : current[fl] = ByteTable(rx.data)[fl]

\* C1 witness: BACK was pressed and a frame with the unlisted byte4 = 0x24
\* has been decoded, leaving the whole BACK/HOME region released.
C1_Witness ==
    /\ Decoded
    /\ previous.backButtonPressed
    /\ At(rx.data, 4) = \h24
    /\ \A fl \in {"backButtonPressed", "backButtonTouched",
                  "homeButtonPressed", "homeButtonTouched"} : ~current[fl]

\* C2: every widget event printed by a controller-frame decode names a
\* widget whose decoded state differs from the state the snapshot held
\* before the decode.
C2_EventOnlyOnChange ==
    Decoded =>
        \A i \in DOMAIN WidgetEvents :
            \E fl \in FieldsOf(WidgetEvents[i].widget) :
                previous[fl] # ByteTable(rx.data)[fl]

\* C2 witness: a frame re-asserted knob center while changing four buttons:
\* four events, none of them for the knob.
C2_Witness ==
    /\ Decoded
    /\ previous.knobPressedCenter /\ current.knobPressedCenter
    /\ Len(events) = 4
    /\ \A i \in DOMAIN events : events[i].widget # "knobPressedCenter"

\* C3: decoding the controller payload that the previous read already
\* delivered prints no event at all, neither widget nor rotation.
C3_RepeatSilent ==
    [][(op' = "frame" /\ rx.id = IDRIVE_CONTROLLER_ID /\ rx' = rx)
          => events' = << >>]_vars

\* C3 witness: the frame just decoded is the one that had produced a
\* clockwise step and a knob press on the decode before.
C3_Witness ==
    /\ Decoded
    /\ previous.rotationDirection = 1
    /\ previous.knobPressedCenter
    /\ previous.sequenceCounter = At(rx.data, 0)
    /\ previous.lastEncoderValue = At(rx.data, 1)
    /\ \A fl \in WidgetFields : previous[fl] = ByteTable(rx.data)[fl]
    /\ events = << >>
    /\ current.rotationDirection = 0

\* C4: in every state at most one boolean of each shared button byte is
\* true, and a boolean a frame has set leaves no sibling of its region true.
C4_RegionExclusive ==
    \A region \in ButtonRegions :
        /\ Cardinality({fl \in region : current[fl]}) <= 1
        /\ Cardinality({fl \in region : previous[fl]}) <= 1
        /\ Decoded =>
              \A fl \in region :
                  (current[fl] /\ ~previous[fl]) =>
                      \A g \in region \ {fl} : ~current[g]

\* C4 witness: BACK was pressed, the frame set HOME touched and BACK is clear.
C4_Witness ==
    /\ Decoded
    /\ previous.backButtonPressed
    /\ current.homeButtonTouched
    /\ ~current.backButtonPressed

\* previous with the two brightness fields taken from snapshot s.
BrightnessFrom(s, snapshot) ==
    [snapshot EXCEPT !.iDriveLightOn = s.iDriveLightOn,
                     !.brightnessLevel = s.brightnessLevel]

\* C5 as stated: when a frame is decoded after another one, previous is
\* what current was at the end of the decode before.
C5_PreviousIsLastDecode ==
    [][(op' = "frame" /\ rx # NoFrame) => previous' = settled]_vars

\* C5 amended: when a frame is decoded, previous is what current was just
\* before the decode touched it; that is current as of the end of the
\* decode before, except for the light flag and the brightness level, which
\* are as the brightness commands since then left them.
C5_PreviousIsCurrentBefore ==
    [][op' = "frame" =>
          /\ previous' = current
          /\ BrightnessFrom(settled, previous') = settled]_vars

\* C5 witness: a controller frame was decoded after a brightness command
\* had switched the light on, and previous carries the light flag.
C5_Witness ==
    /\ Decoded
    /\ previous.iDriveLightOn
    /\ previous.knobPressedCenter
    /\ current # previous

\* C6: the first controller frame ever decoded prints no rotation event,
\* reports no direction and leaves the step position alone.
C6_FirstFrameNoRotation ==
    (Decoded /\ controllerFrames = 1) =>
        /\ RotationEvents = << >>
        /\ current.rotationDirection = 0
        /\ current.stepPosition = 0
        /\ current.stepPosition = previous.stepPosition

\* C6 witness: the first controller frame carried sequence 1 and encoder
\* 0xF0 and set the baseline.
C6_Witness ==
    /\ Decoded /\ controllerFrames = 1
    /\ At(rx.data, 0) = 1 /\ At(rx.data, 1) = \hF0
    /\ ~current.firstRotationMessage
    /\ current.lastEncoderValue = \hF0

\* The decode found the tracker in Tracking state and the sequence changed.
Tracked ==
    /\ Decoded
    /\ ~previous.firstRotationMessage
    /\ At(rx.data, 0) # previous.sequenceCounter

\* (encoder - lastEncoderValue) mod 256 of the decode.
ModDiff == (At(rx.data, 1) - previous.lastEncoderValue) % 256

\* C7: in Tracking state with the sequence changed, a modular encoder
\* difference in 1..127 reports clockwise and adds one step, one in 129..255
\* reports counter-clockwise and subtracts one; 0xF0 -> 0x05 normalises to
\* +21 and 0 -> 5 to 5, both clockwise.
C7_DirectionByModDiff ==
    Tracked =>
        /\ ModDiff \in 1..127 =>
              /\ current.rotationDirection = 1
              /\ current.stepPosition = previous.stepPosition + 1
        /\ ModDiff \in 129..255 =>
              /\ current.rotationDirection = -1
              /\ current.stepPosition = previous.stepPosition - 1
        /\ (previous.lastEncoderValue = \hF0 /\ At(rx.data, 1) = \h05) =>
              /\ EncoderDiff(At(rx.data, 1), previous.lastEncoderValue) = 21
              /\ current.rotationDirection = 1
        /\ (previous.lastEncoderValue = \h00 /\ At(rx.data, 1) = \h05) =>
              /\ EncoderDiff(At(rx.data, 1), previous.lastEncoderValue) = 5
              /\ current.rotationDirection = 1

\* C7 witness: the tracked decode of encoder 0x05 after 0xF0 stepped to 1.
C7_Witness ==
    /\ Tracked
    /\ previous.lastEncoderValue = \hF0
    /\ At(rx.data, 1) = \h05
    /\ current.stepPosition = 1

\* C8: the normalised difference of every tracked decode lies in -128..127.
C8_DiffInRange ==
    Tracked =>
        EncoderDiff(At(rx.data, 1), previous.lastEncoderValue) \in -128..127

\* C9: a controller frame whose sequence byte differs from the stored one
\* and whose encoder byte equals the stored sample prints no rotation
\* event, reports direction none and leaves the step position alone.
C9_SequenceBumpOnly ==
    (/\ Decoded
     /\ At(rx.data, 0) # previous.sequenceCounter
     /\ At(rx.data, 1) = previous.lastEncoderValue) =>
        /\ RotationEvents = << >>
        /\ current.rotationDirection = 0
        /\ current.stepPosition = previous.stepPosition

\* C9 witness: in Tracking state, after a clockwise step, the sequence
\* changed and the encoder stayed at 0x05.
C9_Witness ==
    /\ Tracked
    /\ previous.rotationDirection = 1
    /\ previous.lastEncoderValue = \h05
    /\ At(rx.data, 1) = \h05
    /\ current.sequenceCounter # previous.sequenceCounter

\* C10 as stated: the step position moves by the reported direction, which
\* is -1, 0 or +1, and a rotation event is printed iff the step moved.
C10_StepIsDirectionEventIffMoved ==
    Decoded =>
        /\ current.rotationDirection \in {-1, 0, 1}
        /\ current.stepPosition =
               previous.stepPosition + current.rotationDirection
        /\ (RotationEvents # << >>) <=>
               (current.stepPosition # previous.stepPosition)

\* C10 amended: the step position moves by the reported direction, which is
\* -1, 0 or +1; a rotation event is printed iff the step moved and the
\* debug mode is 0 or 1 (in mode 2 the step moves and nothing is printed).
C10_StepIsDirection ==
    Decoded =>
        /\ current.rotationDirection \in {-1, 0, 1}
        /\ current.stepPosition =
               previous.stepPosition + current.rotationDirection
        /\ Len(RotationEvents) <= 1
        /\ (RotationEvents # << >>) <=>
               (/\ current.stepPosition # previous.stepPosition
                /\ debugMode \in {0, 1})

\* C10 witness: an encoder jump of 0x80 in debug mode 0 moved the step
\* position by one and printed one rotation event.
C10_Witness ==
    /\ Tracked
    /\ debugMode = 0
    /\ EncoderDiff(At(rx.data, 1), previous.lastEncoderValue) = -128
    /\ current.stepPosition = previous.stepPosition - 1
    /\ Len(RotationEvents) = 1

\* C11: a decode whose sequence byte differs from the stored counter
\* stores bytes 0 and 1 as sequence counter and encoder sample; a decode
\* whose sequence byte equals the stored counter reports direction none and
\* leaves counter, encoder sample, step position and first-message flag as
\* they were, whatever byte 1 is.
C11_StoreIffSequenceChanged ==
    Decoded =>
        IF At(rx.data, 0) # previous.sequenceCounter
        THEN /\ current.sequenceCounter = At(rx.data, 0)
             /\ current.lastEncoderValue = At(rx.data, 1)
        ELSE /\ current.rotationDirection = 0
             /\ current.sequenceCounter = previous.sequenceCounter
             /\ current.lastEncoderValue = previous.lastEncoderValue
             /\ current.stepPosition = previous.stepPosition
             /\ current.firstRotationMessage = previous.firstRotationMessage

\* C11 witness: in Tracking state with a step already counted, a frame
\* repeated the stored sequence byte with another encoder byte.
C11_Witness ==
    /\ Decoded
    /\ ~previous.firstRotationMessage
    /\ previous.stepPosition # 0
    /\ At(rx.data, 0) = previous.sequenceCounter
    /\ At(rx.data, 1) # previous.lastEncoderValue
    /\ current.lastEncoderValue = previous.lastEncoderValue

\* C12 as stated: once the first controller frame has been decoded, the
\* first-message flag is false, whatever the bytes of the frame.
C12_FirstFrameClearsFlag ==
    (Decoded /\ controllerFrames = 1) => ~current.firstRotationMessage

\* C13: once the first-message flag of current is false, no frame and no
\* serial command makes it true again.
C13_TrackingTerminal ==
    [][~current.firstRotationMessage =>
           ~current'.firstRotationMessage]_vars

\* C13 witness: after the baseline frame and a later controller frame, a
\* brightness command ran and the flag is still false.
C13_Witness ==
    /\ op = "serial"
    /\ lastCmd = "0"
    /\ controllerFrames = 2
    /\ ~previous.firstRotationMessage
    /\ ~current.firstRotationMessage

\* All widget booleans false, sequence 0, first-message flag set.
FreshSnapshot(s) ==
    /\ \A f \in WidgetFields : ~s[f]
    /\ s.sequenceCounter = 0
    /\ s.firstRotationMessage

\* The knob boolean and the printed label of a knob direction code.
KnobField(code) ==
    CASE code = \h01 -> [field |-> "knobPressedCenter", label |-> "CENTER"]
      [] code = \h10 -> [field |-> "knobPressedUp", label |-> "UP"]
      [] code = \h40 -> [field |-> "knobPressedRight", label |-> "RIGHT"]
      [] code = \h70 -> [field |-> "knobPressedDown", label |-> "DOWN"]
      [] code = \hA0 -> [field |-> "knobPressedLeft", label |-> "LEFT"]

\* A frame with a nonzero sequence byte, one knob direction code and the
\* buttons released was decoded on a fresh snapshot.
KnobScenario ==
    /\ Decoded
    /\ FreshSnapshot(previous)
    /\ At(rx.data, 0) # 0
    /\ At(rx.data, 3) \in KnobCodes
    /\ SubSeq(rx.data, 5, 8) = <<\h00, \h00, \hC0, \hC0>>

\* What the scenario leaves in current: the knob boolean set, the other
\* widgets false, bytes 0 and 1 stored, no step.
KnobScenarioState ==
    /\ \A f \in WidgetFields :
           current[f] <=> (f = KnobField(At(rx.data, 3)).field)
    /\ current.sequenceCounter = At(rx.data, 0)
    /\ current.lastEncoderValue = At(rx.data, 1)
    /\ current.stepPosition = previous.stepPosition
    /\ RotationEvents = << >>

\* C14 as stated: the scenario emits exactly one event, the knob direction
\* going from false to true, no rotation event, and stores bytes 0 and 1.
C14_KnobScenarioOneEvent ==
    KnobScenario =>
        /\ KnobScenarioState
        /\ events = << [widget |-> KnobField(At(rx.data, 3)).field,
                        label  |-> KnobField(At(rx.data, 3)).label] >>

\* C14 amended: in debug mode 0 or 1 the scenario emits exactly that one
\* event; in debug mode 2 it emits none; the snapshot is the same in every
\* mode.
C14_KnobScenario ==
    KnobScenario =>
        /\ KnobScenarioState
        /\ events = IF debugMode \in {0, 1}
                    THEN << [widget |-> KnobField(At(rx.data, 3)).field,
                             label  |-> KnobField(At(rx.data, 3)).label] >>
                    ELSE << >>

\* C14 witness: the frame [1, 0, _, 0x01, 0, 0, 0xC0, 0xC0] decoded on a
\* fresh snapshot in debug mode 0 printed the knob-center event.
C14_Witness ==
    /\ KnobScenario
    /\ debugMode = 0
    /\ rx.data = Payload(1, 0, \h01, \h00, \h00, \hC0, \hC0)
    /\ events = << [widget |-> "knobPressedCenter", label |-> "CENTER"] >>
    /\ current.sequenceCounter = 1
    /\ current.lastEncoderValue = 0

\* The frames of the brightness identifier.
LightOffFrame == Frame(BRIGHTNESS_ID, << BRIGHTNESS_OFF_PAYLOAD >>)

LightSetFrame(l) == Frame(BRIGHTNESS_ID, << l >>)

\* C15: setBrightness(0x00) sends the light-off payload 0xFE on 0x202 and
\* leaves the light-on flag false, whatever level and flag were held.
C15_OffPayload ==
    (op = "setBrightness" /\ lastLevel = 0) =>
        /\ tx = << LightOffFrame >>
        /\ ~current.iDriveLightOn

\* C15 witness: setBrightness(0) ran while the level 0x80 was held, which
\* an earlier call had set together with the light-on flag.
C15_Witness ==
    /\ op = "setBrightness"
    /\ lastLevel = 0
    /\ current.brightnessLevel = \h80
    /\ ~current.iDriveLightOn
    /\ tx = << LightOffFrame >>

\* C16: setBrightness(level) with level # 0 sends one single-byte frame on
\* 0x202 carrying min(level, 0xFD), sets the light-on flag and records
\* that byte as the brightness level.
C16_SetClamped ==
    (op = "setBrightness" /\ lastLevel # 0) =>
        /\ tx = << LightSetFrame(Min(lastLevel, \hFD)) >>
        /\ current.iDriveLightOn
        /\ current.brightnessLevel = Min(lastLevel, \hFD)

\* C16 witness: setBrightness(0xFF) sent and recorded 0xFD.
C16_Witness ==
    /\ op = "setBrightness"
    /\ lastLevel = \hFF
    /\ tx = << LightSetFrame(\hFD) >>
    /\ current.brightnessLevel = \hFD
    /\ current.iDriveLightOn

\* The command read was an increase / a decrease of the brightness.
Increase == {"+", "="}

Decrease == {"-", "_"}

\* C17 as stated: when the last brightness command resolved to level 0
\* (the last frame on 0x202 is the light-off frame), adjustBrightness(+1)
\* sends level 0x20 and turns the light on.
C17_IncreaseFromOff ==
    [][(/\ lastLightFrame = LightOffFrame
        /\ op' = "serial"
        /\ lastCmd' \in Increase) =>
           /\ tx' = << LightSetFrame(BRIGHTNESS_STEP) >>
           /\ current'.iDriveLightOn]_vars

\* C18: adjustBrightness(+1) sends and records min(0xFD, level + 0x20);
\* adjustBrightness(-1) sends and records level - 0x20 when level > 0x20
\* and sends the light-off frame when level <= 0x20.
C18_AdjustClamped ==
    [][/\ (op' = "serial" /\ lastCmd' \in Increase) =>
              /\ tx' = << LightSetFrame(
                              Min(\hFD, current.brightnessLevel + \h20)) >>
              /\ current'.brightnessLevel =
                     Min(\hFD, current.brightnessLevel + \h20)
       /\ (op' = "serial" /\ lastCmd' \in Decrease) =>
              IF current.brightnessLevel > \h20
              THEN /\ tx' = << LightSetFrame(
                                   current.brightnessLevel - \h20) >>
                   /\ current'.brightnessLevel =
                          current.brightnessLevel - \h20
              ELSE /\ tx' = << LightOffFrame >>
                   /\ ~current'.iDriveLightOn]_vars

\* C18 witness: an increase re-sent the maximum 0xFD.
C18_Witness ==
    /\ op = "serial"
    /\ lastCmd = "+"
    /\ tx = << LightSetFrame(\hFD) >>
    /\ current.brightnessLevel = \hFD

\* C19: the recorded level is within 0x00..0xFD; a frame sent on 0x202 has
\* one byte, 0x01..0xFD for a brightness-set frame (then the recorded level)
\* or the light-off payload 0xFE; the light is on iff the last frame sent on
\* 0x202 is a brightness-set frame.
C19_BrightnessRange ==
    /\ current.brightnessLevel \in 0..\hFD
    /\ \A i \in 1..Len(tx) :
           tx[i].id = BRIGHTNESS_ID =>
               /\ Len(tx[i].data) = 1
               /\ tx[i].data[1] \in 1..\hFE
    /\ lastLightFrame # NoFrame =>
           /\ lastLightFrame.data[1] \in 1..\hFE
           /\ lastLightFrame.data[1] # \hFE =>
                  current.brightnessLevel = lastLightFrame.data[1]
    /\ current.iDriveLightOn <=>
           (lastLightFrame # NoFrame /\ lastLightFrame # LightOffFrame)

\* C19 witness: setBrightness(0xFE) ran, then a command that sends nothing
\* on 0x202; the last brightness frame carries 0xFD and the light is on.
C19_Witness ==
    /\ op = "serial"
    /\ lastCmd = "k"
    /\ lastLightFrame = LightSetFrame(\hFD)
    /\ current.iDriveLightOn
    /\ previous.brightnessLevel = \hFD

\* C20 as stated: the command '0' sends the light-off frame and the
\* command '9' sends and records the maximum level 0xFD.
C20_DigitZeroOffNineMax ==
    /\ (op = "serial" /\ lastCmd = "0") =>
           /\ tx = << LightOffFrame >>
           /\ ~current.iDriveLightOn
    /\ (op = "serial" /\ lastCmd = "9") =>
           /\ tx = << LightSetFrame(\hFD) >>
           /\ current.brightnessLevel = \hFD
           /\ current.iDriveLightOn

\* The keep-alive frame.
KeepAliveFrame ==
    Frame(\h567, << \h40, \h67, \h00, \h00, \h00, \h02, \h00, \h00 >>)

\* C21: sendKeepAlive sends the same identifier and payload in every state
\* and changes no field of current or previous.
C21_KeepAliveConstant ==
    [][(op' = "serial" /\ lastCmd' \in {"k", "K"}) =>
           /\ tx' = << KeepAliveFrame >>
           /\ current' = current
           /\ previous' = previous]_vars

\* C21 witness: the keep-alive was sent with the knob centre pressed, a
\* step counted and the light on.
C21_Witness ==
    /\ op = "serial"
    /\ lastCmd = "k"
    /\ tx = << KeepAliveFrame >>
    /\ current.knobPressedCenter
    /\ current.stepPosition = 1
    /\ current.iDriveLightOn

\* The fields of the snapshot the controller frame decides.
UiFields ==
    WidgetFields \cup {"rotationDirection", "stepPosition", "sequenceCounter",
                       "lastEncoderValue", "firstRotationMessage"}

\* C23: a frame of any identifier other than 0x25B leaves the widget
\* booleans, rotation direction, step position, sequence counter, encoder
\* sample and first-message flag of current as they were and prints no
\* state change, whatever its payload.
C23_OtherIdsLeaveUiState ==
    [][(op' = "frame" /\ rx'.id # IDRIVE_CONTROLLER_ID) =>
           /\ \A f \in UiFields : current'[f] = current[f]
           /\ events' = << >>]_vars

\* C23 witness: a frame of the unlisted identifier, with a payload that
\* reads as widget codes, was routed while a button was held and a
\* clockwise step had just been reported.
C23_Witness ==
    /\ op = "frame"
    /\ rx.id = UnlistedId
    /\ At(rx.data, 3) = \h01
    /\ current.comButtonPressed
    /\ ~current.knobPressedCenter
    /\ current.rotationDirection = 1
    /\ current.stepPosition = 1

\* C24 as stated: only the decode of a controller frame changes a field
\* of current or previous.
C24_OnlyDecoderMutates ==
    [][~(op' = "frame" /\ rx'.id = IDRIVE_CONTROLLER_ID) =>
           /\ current' = current
           /\ previous' = previous]_vars

\* current with the two brightness fields taken from snapshot s.
WithBrightnessOf(s, snapshot) ==
    [snapshot EXCEPT !.iDriveLightOn = s.iDriveLightOn,
                     !.brightnessLevel = s.brightnessLevel]

\* C24 amended: a frame of another identifier copies current to previous
\* and changes current only in last567Time (a 0x567 frame); a brightness
\* command changes only iDriveLightOn and brightnessLevel of current; the
\* keep-alive and the debug command change no field of either snapshot.
C24_MutationsByOperation ==
    [][/\ (op' = "frame" /\ rx'.id # IDRIVE_CONTROLLER_ID) =>
              /\ previous' = current
              /\ current' = IF rx'.id = IDRIVE_UNKNOWN_567
                            THEN [current EXCEPT !.last567Time = now']
                            ELSE current
       /\ op' \in {"serial", "setBrightness"} =>
              /\ previous' = previous
              /\ current' = WithBrightnessOf(current', current)
       /\ (op' = "serial" /\ lastCmd' \in {"d", "k"}) =>
              current' = current]_vars

\* C24 witness: a 0x567 frame read at millis() = 1 stamped last567Time
\* after a brightness command had switched the light on.
C24_Witness ==
    /\ op = "frame"
    /\ rx.id = IDRIVE_UNKNOWN_567
    /\ now = 1
    /\ current.last567Time = 1
    /\ previous.last567Time = 0
    /\ previous.iDriveLightOn
    /\ previous.brightnessLevel = \hE0
    /\ previous.comButtonPressed

\* C22 as stated: a loop pass that reads millis() a keep-alive interval or
\* more after the last keep-alive sends a keep-alive frame.
C22_KeepAliveWhenDue ==
    [][(/\ op' = "frame"
        /\ now' - current.lastKeepAliveTime >= KEEPALIVE_INTERVAL) =>
           \E i \in 1..Len(tx') : tx'[i] = KeepAliveFrame]_vars

\* C25: when CAN.begin fails, setup() ends in the halt loop with both
\* snapshots untouched, nothing decoded and nothing sent, and from then on
\* the state never changes again (no loop pass, no retry).
C25_InitFailureHalts ==
    [][/\ canBegin = "CAN_FAILINIT" => FALSE
       /\ canBegin' = "CAN_FAILINIT" =>
              /\ op' = "halted"
              /\ current' = current
              /\ previous' = previous
              /\ rx' = NoFrame
              /\ tx' = << >>
              /\ events' = << >>]_vars

\* C25 witness: CAN.begin failed and the process sits in the halt loop.
C25_Witness ==
    /\ canBegin = "CAN_FAILINIT"
    /\ op = "halted"
    /\ current = iDriveState
    /\ rx = NoFrame
    /\ tx = << >>

\* C26: a step takes at most one frame out of the receive buffer; the frame
\* taken is the oldest one, it is the next in arrival order (frame n
\* carries sequence byte n), the events of the step are the events of that
\* frame alone, and the serial handler takes no frame.
C26_OneFrameInArrivalOrder ==
    [][/\ Len(pending') >= Len(pending) - 1
       /\ Len(pending') < Len(pending) =>
              /\ op' = "frame"
              /\ rx' = Head(pending)
              /\ pending' = Tail(pending)
              /\ At(rx'.data, 0) = current.sequenceCounter + 1
              /\ current'.sequenceCounter = At(rx'.data, 0)
              /\ events' = handleController(current, rx'.data,
                                            debugMode).events
       /\ op' = "frame" => Len(pending') < Len(pending)
       /\ op' = "serial" => pending' = pending]_vars

\* C26 witness: the second frame was decoded while the third one was
\* already waiting behind it.
C26_Witness ==
    /\ op = "frame"
    /\ arrived = 3
    /\ Len(pending) = 1
    /\ At(rx.data, 0) = 2
    /\ At(pending[1].data, 0) = 3
    /\ current.sequenceCounter = 2
    /\ events # << >>

\* The place of a widget in the order the decoder evaluates the regions.
EventRank(widget) ==
    CASE widget = "knobPressedCenter" -> 1
      [] widget = "knobPressedLeft"   -> 2
      [] widget = "knobPressedUp"     -> 3
      [] widget = "knobPressedRight"  -> 4
      [] widget = "knobPressedDown"   -> 5
      [] widget = "BACK"              -> 6
      [] widget = "HOME"              -> 7
      [] widget = "COM"               -> 8
      [] widget = "OPTION"            -> 9
      [] widget = "MEDIA"             -> 10
      [] widget = "NAV"               -> 11
      [] widget = "MAP"               -> 12
      [] widget = "GLOBE"             -> 13
      [] widget = "Rotation"          -> 14

\* C27: the events of one controller frame come in the order knob (center,
\* left, up, right, down), BACK, HOME, COM, OPTION, MEDIA, NAV, MAP, GLOBE,
\* rotation, whatever the previous snapshot was.
C27_EventOrder ==
    Decoded =>
        \A i, j \in 1..Len(events) :
            i < j => EventRank(events[i].widget) < EventRank(events[j].widget)

\* C27 witness: one frame changed the knob and all eight buttons and
\* turned the knob: eleven events, the knob first and the rotation last.
C27_Witness ==
    /\ Decoded
    /\ Len(events) = 11
    /\ events[1].widget = "knobPressedCenter"
    /\ events[2].widget = "knobPressedLeft"
    /\ events[10].widget = "GLOBE"
    /\ events[11].widget = "Rotation"

\* The widgets: the five knob directions and the eight buttons.
WidgetNames ==
    {"knobPressedCenter", "knobPressedLeft", "knobPressedUp",
     "knobPressedRight", "knobPressedDown",
     "BACK", "HOME", "COM", "OPTION", "MEDIA", "NAV", "MAP", "GLOBE"}

\* The widgets with a boolean that the decode changed.
ChangedWidgets ==
    {w \in WidgetNames : \E f \in FieldsOf(w) : current[f] # previous[f]}

\* C28 as stated: the number of widget events of a decode equals the
\* number of widget booleans the decode changed.
C28_EventPerChangedBoolean ==
    Decoded =>
        Len(WidgetEvents) =
            Cardinality({f \in WidgetFields : current[f] # previous[f]})

\* C28 amended: in debug mode 0 or 1 a decode prints exactly one event for
\* every knob direction whose boolean changed and one for every button
\* whose pressed or touched boolean changed (one event also when both
\* changed); in debug mode 2 it prints none.
C28_EventPerChangedWidget ==
    Decoded =>
        IF debugMode \in {0, 1}
        THEN /\ {WidgetEvents[i].widget : i \in 1..Len(WidgetEvents)}
                    = ChangedWidgets
             /\ Len(WidgetEvents) = Cardinality(ChangedWidgets)
        ELSE WidgetEvents = << >>

\* C28 witness: BACK went from pressed to touched, two booleans changed
\* and one event was printed.
C28_Witness ==
    /\ Decoded
    /\ debugMode = 0
    /\ previous.backButtonPressed
    /\ ~previous.backButtonTouched
    /\ current.backButtonTouched
    /\ ~current.backButtonPressed
    /\ events = << [widget |-> "BACK", label |-> "TOUCHED"] >>

\* C29 as stated: decoding the same payload again right after a decode
\* leaves every field of current as the first decode left it.
C29_RepeatKeepsSnapshot ==
    [][(Decoded /\ op' = "frame" /\ rx' = rx) => current' = current]_vars

\* C29 amended: decoding the same payload again right after a decode
\* leaves every field of current as the first decode left it, except the
\* rotation direction, which becomes none.
C29_RepeatKeepsAllButDirection ==
    [][(Decoded /\ op' = "frame" /\ rx' = rx) =>
           current' = [current EXCEPT !.rotationDirection = 0]]_vars

\* C29 witness: the frame that had just produced a clockwise step was
\* decoded again; the step stayed and the direction went to none.
C29_Witness ==
    /\ Decoded
    /\ previous.rotationDirection = 1
    /\ previous.stepPosition = 1
    /\ At(rx.data, 0) = previous.sequenceCounter
    /\ At(rx.data, 1) = previous.lastEncoderValue
    /\ \A f \in WidgetFields : previous[f] = ByteTable(rx.data)[f]
    /\ current = [previous EXCEPT !.rotationDirection = 0]

\* The serial commands that call setBrightness or adjustBrightness.
BrightnessCommands ==
    {"0", "1", "2", "3", "4", "5", "6", "7", "8", "9", "+", "=", "-", "_"}

\* A frame on the brightness id is a light on/off frame when the light
\* toggle sent it or when it carries the light-off byte 0xFE, and a
\* brightness-set frame otherwise.
LightOnOffFrame(f) ==
    /\ f.id = BRIGHTNESS_ID
    /\ \/ op = "iDriveLight"
       \/ At(f.data, 0) = BRIGHTNESS_OFF_PAYLOAD

BrightnessSetFrame(f) ==
    /\ f.id = BRIGHTNESS_ID
    /\ ~LightOnOffFrame(f)

\* C30: of the frames sent by an operation, every brightness-set frame has
\* a payload of exactly one byte and every light on/off frame a payload of
\* exactly two bytes, and the frame sent by sendKeepAlive is the one fixed
\* keep-alive frame.
C30_FrameShapes ==
    /\ \A i \in 1..Len(tx) :
           /\ BrightnessSetFrame(tx[i]) => Len(tx[i].data) = 1
           /\ LightOnOffFrame(tx[i]) => Len(tx[i].data) = 2
    /\ (op = "serial" /\ lastCmd \in {"k", "K"}) => tx = << KeepAliveFrame >>

\* The payload d with its encoder byte (byte 1) replaced by enc.
WithEncoder(d, enc) == [d EXCEPT ![2] = enc]

\* C31: in Tracking state with the sequence changed, the direction and the
\* step change of a decode are those of every other pair (lastEncoderValue,
\* encoder) with the same difference modulo 256, the half-turn difference
\* 128 included.
C31_DirectionByModDiffOnly ==
    Tracked =>
        \A last \in Byte :
            LET other == handleController(
                             [previous EXCEPT !.lastEncoderValue = last],
                             WithEncoder(rx.data, (last + ModDiff) % 256),
                             debugMode).state
            IN  /\ other.rotationDirection = current.rotationDirection
                /\ other.stepPosition - previous.stepPosition
                       = current.stepPosition - previous.stepPosition

\* The eight buttons with their pressed and touched booleans.
ButtonFields ==
    [BACK   |-> <<"backButtonPressed", "backButtonTouched">>,
     HOME   |-> <<"homeButtonPressed", "homeButtonTouched">>,
     COM    |-> <<"comButtonPressed", "comButtonTouched">>,
     OPTION |-> <<"optionButtonPressed", "optionButtonTouched">>,
     MEDIA  |-> <<"mediaButtonPressed", "mediaButtonTouched">>,
     NAV    |-> <<"navButtonPressed", "navButtonTouched">>,
     MAP    |-> <<"mapButtonPressed", "mapButtonTouched">>,
     GLOBE  |-> <<"globeButtonPressed", "globeButtonTouched">>]

\* The label that names the state of button b in snapshot s.
StateLabel(s, b) ==
    IF s[ButtonFields[b][1]] THEN "PRESSED"
    ELSE IF s[ButtonFields[b][2]] THEN "TOUCHED" ELSE "RELEASED"

\* C32: every button event of a decode carries the label of the button's
\* state after the decode: RELEASED iff neither boolean is true, PRESSED
\* iff pressed is true, TOUCHED iff touched is true.
C32_LabelMatchesState ==
    Decoded =>
        \A i \in 1..Len(events) :
            events[i].widget \in DOMAIN ButtonFields =>
                events[i].label = StateLabel(current, events[i].widget)

\* C33 as stated: the events of a decode are the events the same decode
\* emits in each of the debug modes 0, 1 and 2.
C33_EventsInEveryMode ==
    Decoded =>
        \A d \in {0, 1, 2} :
            events = handleController(previous, rx.data, d).events

\* C33 amended: the events of a decode are the same in debug modes 0 and
\* 1; in debug mode 2 a decode emits no event.
C33_EventsInModes01 ==
    Decoded =>
        IF debugMode \in {0, 1}
        THEN \A d \in {0, 1} :
                 events = handleController(previous, rx.data, d).events
        ELSE events = << >>

\* C33 witness: a decode in debug mode 1 emitted widget events and a
\* rotation event.
C33_Witness ==
    /\ Decoded
    /\ debugMode = 1
    /\ Len(WidgetEvents) >= 2
    /\ Len(RotationEvents) = 1

\* C34: debugMode stays in 0..2 and changes only by the 'd' command, from
\* m to (m + 1) % 3, which changes neither snapshot and sends nothing; a
\* frame read and every other command leave the snapshots and the frames
\* sent as they would in each of the three debug modes.
C34_DebugModeNoInfluence ==
    [][/\ debugMode' \in {0, 1, 2}
       /\ debugMode' # debugMode =>
              /\ op' = "serial"
              /\ lastCmd' = "d"
              /\ debugMode' = (debugMode + 1) % 3
              /\ current' = current
              /\ previous' = previous
              /\ tx' = << >>
       /\ op' = "frame" =>
              \A d \in {0, 1, 2} :
                  /\ current' = Route(current, rx'.id, rx'.data, now', d).state
                  /\ previous' = current
                  /\ tx' = << >>
       /\ (op' = "serial" /\ lastCmd' # "d") =>
              \A d \in {0, 1, 2} :
                  /\ current' = SerialCommand(current, d, lastCmd').state
                  /\ tx' = SerialCommand(current, d, lastCmd').tx
                  /\ previous' = previous]_vars

\* C34 witness: in debug mode 2 a controller frame changed a widget
\* boolean of current and printed nothing.
C34_Witness ==
    /\ Decoded
    /\ debugMode = 2
    /\ events = << >>
    /\ \E f \in WidgetFields : current[f] # previous[f]

\* The five knob direction booleans.
KnobFields ==
    {"knobPressedCenter", "knobPressedUp", "knobPressedDown",
     "knobPressedLeft", "knobPressedRight"}

\* C35: at most one of the five knob direction booleans of current is
\* true, and after a decode that leaves a direction true no direction
\* that was true before is still true unless it is that same direction.
C35_OneKnobDirection ==
    /\ Cardinality({f \in KnobFields : current[f]}) <= 1
    /\ Decoded =>
           \A f \in KnobFields :
               current[f] =>
                   \A g \in KnobFields \ {f} : previous[g] => ~current[g]

\* C35 witness: the knob was held at center and the frame reported left;
\* left is now the only direction set.
C35_Witness ==
    /\ Decoded
    /\ previous.knobPressedCenter
    /\ current.knobPressedLeft
    /\ {f \in KnobFields : current[f]} = {"knobPressedLeft"}

\* C36: while the first-message flag of current is true the step position
\* is 0, the direction is none and the step reached printed no rotation
\* event; once a rotation event has been printed the flag is never true
\* again; and the step that clears the flag prints no rotation event.
C36_BaselineIsQuiet ==
    /\ [](current.firstRotationMessage =>
             /\ current.stepPosition = 0
             /\ current.rotationDirection = 0
             /\ RotationEvents = << >>)
    /\ [](RotationEvents # << >> => [](~current.firstRotationMessage))
    /\ [][(current.firstRotationMessage /\ ~current.firstRotationMessage')
              => SelectSeq(events', LAMBDA e : e.widget = "Rotation") = << >>]_vars

\* C36 witness: the second controller frame found the flag still true and
\* cleared it; its encoder byte differs from the stored sample, and it
\* printed no rotation event and left the step position at 0.
C36_Witness ==
    /\ Decoded
    /\ debugMode = 0
    /\ controllerFrames = 2
    /\ previous.firstRotationMessage
    /\ ~current.firstRotationMessage
    /\ At(rx.data, 1) # previous.lastEncoderValue
    /\ RotationEvents = << >>
    /\ current.stepPosition = 0

\* C37: setBrightness and adjustBrightness change only brightnessLevel and
\* iDriveLightOn of current and nothing in previous; the decode of a
\* controller frame changes neither of those two fields and sends no
\* frame.
C37_DecodeAndBrightnessApart ==
    [][/\ (\/ op' = "setBrightness"
           \/ op' = "serial" /\ lastCmd' \in BrightnessCommands) =>
              /\ current' = WithBrightnessOf(current', current)
              /\ previous' = previous
       /\ (op' = "frame" /\ rx'.id = IDRIVE_CONTROLLER_ID) =>
              /\ current'.brightnessLevel = current.brightnessLevel
              /\ current'.iDriveLightOn = current.iDriveLightOn
              /\ tx' = << >>]_vars

\* C37 witness: with the knob held at center and a clockwise step counted,
\* the '-' command lowered the level from 0xFD to 0xDD.
C37_Witness ==
    /\ op = "serial"
    /\ lastCmd = "-"
    /\ tx = << LightSetFrame(\hDD) >>
    /\ current.brightnessLevel = \hDD
    /\ current.iDriveLightOn
    /\ current.knobPressedCenter
    /\ current.rotationDirection = 1
    /\ current.stepPosition = 1

\* C38: a poll that reads no frame changes nothing. Only a step that
\* takes the oldest frame out of the receive buffer overwrites previous,
\* shortens the buffer or counts as a decoded frame; no such step exists
\* while the buffer is empty; and current and the events change only by
\* such a step, a serial command or setup().
C38_IdlePollChangesNothing ==
    [][/\ previous' # previous => op' = "frame"
       /\ op' = "frame" =>
              /\ pending # << >>
              /\ rx' = Head(pending)
              /\ pending' = Tail(pending)
       /\ Len(pending') < Len(pending) => op' = "frame"
       /\ current' # current => op' \in {"frame", "serial", "setup"}
       /\ events' # events => op' \in {"frame", "serial"}]_vars

\* C38 witness: a frame has been decoded, the snapshots differ, its events
\* are still there, and the next frame waits in the buffer: the state in
\* which a poll with a failed read is taken.
C38_Witness ==
    /\ op = "frame"
    /\ canBegin = "CAN_OK"
    /\ Len(pending) = 1
    /\ arrived = 2
    /\ previous # current
    /\ events # << >>
    /\ rx # Head(pending)

\* Frame number n waits in the receive buffer.
FrameWaiting(n) ==
    \E i \in 1..Len(pending) : At(pending[i].data, 0) = n

\* C39: once CAN.begin has succeeded the halt loop is never entered and,
\* whenever a frame waits in the receive buffer, the pass in which
\* processCanMessages reads it can be taken (in every debug mode, after
\* every command); and every frame that waits in the receive buffer is
\* eventually read and routed, whatever commands come in between.
C39_PendingFramesAreRead ==
    /\ [](canBegin = "CAN_OK" =>
              /\ op # "halted"
              /\ (pending # << >> => ENABLED ReadPending))
    /\ \A n \in 1..MaxArrivals :
           FrameWaiting(n) ~> (op = "frame" /\ At(rx.data, 0) = n)

\* C39 witness: the third frame has been read and routed and the buffer
\* is empty, after a brightness command switched the light off.
C39_Witness ==
    /\ op = "frame"
    /\ At(rx.data, 0) = 3
    /\ pending = << >>
    /\ lastLightFrame = LightOffFrame
    /\ ~current.iDriveLightOn

====
